---- MODULE Spec2Model ----
(***************************************************************************)
(* Model of the n8n "Npm Watch" node (nodes/NpmWatch/NpmWatch.node.ts):    *)
(* the orchestration loop NpmWatch.execute, the per-package check          *)
(* checkPackageVersion, the record builder buildVersionChange, the release *)
(* cascade fetchGitHubRelease and the pure helpers detectChangeType,       *)
(* generateFakePreviousVersion and normalizeRepositoryUrl.                 *)
(*                                                                         *)
(* JavaScript strings are TLA+ strings (TLC evaluates Len, SubSeq and \o   *)
(* on them); JavaScript undefined is the value Undefined; a value that  *)
(* may be null carries an isNull field.                                     *)
(* Every await of the code is a step boundary of the model: the registry   *)
(* fetch and every release lookup complete in an action of their own, and  *)
(* what the HTTP collaborator answers is an input of that action.          *)
(***************************************************************************)
EXTENDS Integers, Sequences, FiniteSets, TLC

\* ------------------------------------------------------------ bounds
\* invocations of execute
MaxRuns == 2

\* largest component of the version strings the helpers are called with
MaxComponent == 2

\* how often a prefix or the suffix is stacked on a repository string
MaxRepeat == 2

\* ------------------------------------------------------------ values
Undefined == "<undefined>"

\* the literal the code passes as fromVersion when there is no prior
\* observation (a Korean word in the source, "(initial)" here: the module is ASCII)
Sentinel == "(initial)"

Packages == {"react", "axios"}
Tags == {"latest", "next"}
Versions == {"1.0.0", "1.0.1-b"}

\* ------------------------------------------------------------ strings
\* the character of s at position i, empty outside the string
CharAt(s, i) == IF i \in 1..Len(s) THEN SubSeq(s, i, i) ELSE ""

Digits == {"0", "1", "2", "3", "4", "5", "6", "7", "8", "9"}

DigitVal(c) ==
  CASE c = "0" -> 0 [] c = "1" -> 1 [] c = "2" -> 2 [] c = "3" -> 3 [] c = "4" -> 4
    [] c = "5" -> 5 [] c = "6" -> 6 [] c = "7" -> 7 [] c = "8" -> 8 [] c = "9" -> 9

DigitChar(d) ==
  CASE d = 0 -> "0" [] d = 1 -> "1" [] d = 2 -> "2" [] d = 3 -> "3" [] d = 4 -> "4"
    [] d = 5 -> "5" [] d = 6 -> "6" [] d = 7 -> "7" [] d = 8 -> "8" [] d = 9 -> "9"

\* String.prototype.includes / RegExp.test for a literal pattern
Includes(s, sub) ==
  \E i \in 1..(Len(s) - Len(sub) + 1) : SubSeq(s, i, i + Len(sub) - 1) = sub

StartsWith(s, pre) == Len(s) >= Len(pre) /\ SubSeq(s, 1, Len(pre)) = pre

EndsWith(s, suf) ==
  Len(s) >= Len(suf) /\ SubSeq(s, Len(s) - Len(suf) + 1, Len(s)) = suf

\* s.replace(/^pre/, by)
ReplacePrefix(s, pre, by) ==
  IF StartsWith(s, pre) THEN by \o SubSeq(s, Len(pre) + 1, Len(s)) ELSE s

\* s.replace(/suf$/, '')
StripSuffix(s, suf) ==
  IF EndsWith(s, suf) THEN SubSeq(s, 1, Len(s) - Len(suf)) ELSE s

\* s.split(sep) for a one-character separator: the sequence of the
\* components between the separators, never empty
Split(s, sep) ==
  LET split[t \in STRING] ==
        IF ~Includes(t, sep)
        THEN <<t>>
        ELSE LET i == CHOOSE j \in 1..Len(t) :
                        CharAt(t, j) = sep /\ \A h \in 1..(j - 1) : CharAt(t, h) # sep
             IN <<SubSeq(t, 1, i - 1)>> \o split[SubSeq(t, i + 1, Len(t))]
  IN split[s]

SplitDots(s) == Split(s, ".")

\* parts.join(sep), parts not empty
Join(parts, sep) ==
  LET join[rest \in Seq(STRING)] ==
        IF Len(rest) = 1 THEN rest[1] ELSE rest[1] \o sep \o join[Tail(rest)]
  IN join[parts]

JoinDots(parts) == Join(parts, ".")

\* s.trim(), for the space character
Trim(s) ==
  LET trim[t \in STRING] ==
        IF t = "" THEN ""
        ELSE IF Head(t) = " " THEN trim[Tail(t)]
        ELSE IF CharAt(t, Len(t)) = " " THEN trim[SubSeq(t, 1, Len(t) - 1)]
        ELSE t
  IN trim[s]

\* the characters of the class [\w-]
WordChars ==
  Digits \cup {"_", "-"} \cup
  {"a", "b", "c", "d", "e", "f", "g", "h", "i", "j", "k", "l", "m",
   "n", "o", "p", "q", "r", "s", "t", "u", "v", "w", "x", "y", "z"} \cup
  {"A", "B", "C", "D", "E", "F", "G", "H", "I", "J", "K", "L", "M",
   "N", "O", "P", "Q", "R", "S", "T", "U", "V", "W", "X", "Y", "Z"}

\* the longest run of [\w-] characters of s that starts at position i
WordRun(s, i) ==
  LET run[t \in STRING] ==
        IF t = "" \/ Head(t) \notin WordChars THEN "" ELSE Head(t) \o run[Tail(t)]
  IN IF i > Len(s) THEN "" ELSE run[SubSeq(s, i, Len(s))]

\* s.replace(/[^0-9.]/g, '')
KeepDigitsAndDots(s) ==
  LET keep[t \in STRING] ==
        IF t = "" THEN ""
        ELSE (IF Head(t) \in Digits \/ Head(t) = "." THEN Head(t) ELSE "")
             \o keep[Tail(t)]
  IN keep[s]

\* the number a string of decimal digits denotes
DigitsValue(s) ==
  LET value[t \in STRING] ==
        IF t = "" THEN 0
        ELSE 10 * value[SubSeq(t, 1, Len(t) - 1)] + DigitVal(CharAt(t, Len(t)))
  IN value[s]

\* the longest prefix of s made of decimal digits
LeadingDigits(s) ==
  LET leading[t \in STRING] ==
        IF t = "" \/ Head(t) \notin Digits THEN "" ELSE Head(t) \o leading[Tail(t)]
  IN leading[s]

\* Number.prototype.toString for a natural number
NatToString(n) ==
  LET digits[m \in Nat] ==
        IF m < 10 THEN DigitChar(m) ELSE digits[m \div 10] \o DigitChar(m % 10)
  IN digits[n]


\* parseInt(s) || 0: an optional sign, then the leading decimal digits; NaN
\* (no digit) and 0 both give 0
ParseIntOrZero(s) ==
  LET neg  == StartsWith(s, "-")
      body == IF neg \/ StartsWith(s, "+") THEN Tail(s) ELSE s
      v    == DigitsValue(LeadingDigits(body))
  IN IF neg THEN 0 - v ELSE v

Max(a, b) == IF a >= b THEN a ELSE b

\* ------------------------------------------------------------ pure helpers
\* parts[i] > other[j] on arrays of numbers: an index past the end reads
\* undefined, and every comparison with undefined is false
GreaterAt(newParts, oldParts, i) ==
  i <= Len(newParts) /\ i <= Len(oldParts) /\ newParts[i] > oldParts[i]

\* version.replace(/[^0-9.]/g, '').split('.').map(Number)
NumericParts(version) ==
  LET parts == SplitDots(KeepDigitsAndDots(version))
  IN [i \in 1..Len(parts) |-> DigitsValue(parts[i])]

detectChangeType(oldVersion, newVersion) ==
  IF oldVersion = Undefined \/ oldVersion = "" \/ oldVersion = Sentinel THEN "unknown"
  ELSE IF Includes(newVersion, "-") THEN "prerelease"
  ELSE LET oldParts == NumericParts(oldVersion)
           newParts == NumericParts(newVersion)
       IN IF GreaterAt(newParts, oldParts, 1) THEN "major"
          ELSE IF GreaterAt(newParts, oldParts, 2) THEN "minor"
          ELSE IF GreaterAt(newParts, oldParts, 3) THEN "patch"
          ELSE "unknown"

\* faulty variant: the second component is decremented instead of the third
generateFakePreviousVersion_minor(currentVersion) ==
  LET parts == SplitDots(currentVersion)
  IN IF Len(parts) >= 3
     THEN LET minor == ParseIntOrZero(parts[2])
          IN JoinDots([parts EXCEPT ![2] = NatToString(Max(0, minor - 1))])
     ELSE "0.0.0"

generateFakePreviousVersion(currentVersion) ==
  LET parts == SplitDots(currentVersion)
  IN IF Len(parts) >= 3
     THEN LET patch == ParseIntOrZero(parts[3])
          IN JoinDots([parts EXCEPT ![3] = NatToString(Max(0, patch - 1))])
     ELSE "0.0.0"

\* faulty variant: the github: shorthand is expanded first, before git+ is
\* removed
normalizeRepositoryUrl_shorthandFirst(repoString) ==
  StripSuffix(
    ReplacePrefix(
      ReplacePrefix(ReplacePrefix(repoString, "github:", "https://github.com/"),
                    "git+", ""),
      "git://", "https://"),
    ".git")

normalizeRepositoryUrl(repoString) ==
  ReplacePrefix(
    StripSuffix(
      ReplacePrefix(ReplacePrefix(repoString, "git+", ""), "git://", "https://"),
      ".git"),
    "github:", "https://github.com/")


\* repoUrl.match(/github\.com[/:]([\w-]+)\/([\w-]+)/): whether it matches, and
\* the owner and the repo of the leftmost match
GitHubMatch(repoUrl) ==
  LET Owner(p) == WordRun(repoUrl, p + 11)
      Repo(p)  == WordRun(repoUrl, p + 12 + Len(Owner(p)))
      Hit(p)   == /\ StartsWith(SubSeq(repoUrl, p, Len(repoUrl)), "github.com")
                  /\ CharAt(repoUrl, p + 10) \in {"/", ":"}
                  /\ Owner(p) # ""
                  /\ CharAt(repoUrl, p + 11 + Len(Owner(p))) = "/"
                  /\ Repo(p) # ""
      hits     == {p \in 1..Len(repoUrl) : Hit(p)}
  IN IF hits = {} THEN [matched |-> FALSE, owner |-> Undefined, repo |-> Undefined]
     ELSE LET p == CHOOSE q \in hits : \A r \in hits : q <= r
          IN [matched |-> TRUE, owner |-> Owner(p), repo |-> Repo(p)]

\* faulty variant: the bare version is tried before the v-prefixed one
tagVariants_swapped(repo, version) ==
  << version, "v" \o version, repo \o "@" \o version, repo \o "-" \o version >>

\* the candidate tag names of fetchGitHubRelease, in the order they are tried
tagVariants(repo, version) ==
  << "v" \o version, version, repo \o "@" \o version, repo \o "-" \o version >>

\* faulty variant: the change type is worked out after the enrichment and a
\* record with a release title is not classified
VersionChange_byRelease(pkg, fromVersion, toVersion, tag, repositoryUrl, changelogUrl, releaseNotes, releaseTitle) ==
  [ pkg           |-> pkg,
    from          |-> fromVersion,
    to            |-> toVersion,
    tag           |-> tag,
    changeType    |-> IF releaseTitle # Undefined THEN "unknown"
                      ELSE detectChangeType(fromVersion, toVersion),
    npmUrl        |-> "https://www.npmjs.com/package/" \o pkg \o "/v/" \o toVersion,
    repositoryUrl |-> repositoryUrl,
    changelogUrl  |-> changelogUrl,
    releaseNotes  |-> releaseNotes,
    releaseTitle  |-> releaseTitle ]

\* the object buildVersionChange returns (publishedAt, a pass-through of
\* npmData.time that no decision reads, is left out)
VersionChange(pkg, fromVersion, toVersion, tag, repositoryUrl, changelogUrl, releaseNotes, releaseTitle) ==
  [ pkg           |-> pkg,
    from          |-> fromVersion,
    to            |-> toVersion,
    tag           |-> tag,
    changeType    |-> detectChangeType(fromVersion, toVersion),
    npmUrl        |-> "https://www.npmjs.com/package/" \o pkg \o "/v/" \o toVersion,
    repositoryUrl |-> repositoryUrl,
    changelogUrl  |-> changelogUrl,
    releaseNotes  |-> releaseNotes,
    releaseTitle  |-> releaseTitle ]

\* faulty variant: the version is used as the tag without the v prefix
FallbackChangelogUrl_plain(repositoryUrl, toVersion) ==
  repositoryUrl \o "/releases/tag/" \o toVersion

\* the releases link used when no candidate resolved
FallbackChangelogUrl(repositoryUrl, toVersion) ==
  repositoryUrl \o "/releases/tag/"
    \o (IF StartsWith(toVersion, "v") THEN toVersion ELSE "v" \o toVersion)

\* JavaScript falsiness of a string | undefined
Falsy(v) == v = Undefined \/ v = ""

\* npmData.repository: absent, a string, or an object with an optional url
NoRepository == [form |-> "absent", url |-> Undefined]

\* the repository URL buildVersionChange extracts from npmData?.repository
ExtractRepositoryUrl(npmData) ==
  LET repository == IF npmData.isNull THEN NoRepository ELSE npmData.repository
  IN IF repository.form = "absent" THEN Undefined
     ELSE IF repository.form = "string" THEN normalizeRepositoryUrl(repository.url)
     ELSE IF ~Falsy(repository.url) THEN normalizeRepositoryUrl(repository.url)
     ELSE Undefined

EmptyLastSeen == [p \in Packages |-> Undefined]

\* a dist-tags mapping without any key
NoDistTags == [t \in Tags |-> Undefined]

\* data?.['dist-tags'] ?? {} read at the requested tag
CurrentVersion(data, tag) ==
  IF data.isNull \/ ~data.hasDistTags THEN Undefined ELSE data.distTags[tag]

\* faulty variant: the missing-tag test is skipped
TagMissing_never(currentVersion) == FALSE

\* the tag is not in dist-tags: if (!currentVersion) return null
TagMissing(currentVersion) == Falsy(currentVersion)

\* faulty variant: the prerelease filter lets every version through
PrereleaseFiltered_never(includePre, currentVersion) == FALSE

\* the prerelease filter: !includePre && /-/.test(currentVersion)
PrereleaseFiltered(includePre, currentVersion) ==
  ~includePre /\ Includes(currentVersion, "-")

\* faulty variant: the debug branch is never taken
DebugBranch_never(debugMode, lastSeen) == FALSE

\* the condition of the debug branch: debugMode && !lastSeen
DebugBranch(debugMode, lastSeen) == debugMode /\ Falsy(lastSeen)

\* faulty variant: the first run does not record the version
StoreOnFirstRun_skipped(lastSeenStore, pkg, currentVersion) == lastSeenStore

\* the first-run write: if (!lastSeen) lastSeenStore[pkg] = currentVersion
StoreOnFirstRun(lastSeenStore, pkg, currentVersion) ==
  IF Falsy(lastSeenStore[pkg])
  THEN [lastSeenStore EXCEPT ![pkg] = currentVersion]
  ELSE lastSeenStore

\* faulty variant: an unchanged version is reported as a change
NoChange_never(lastSeen, currentVersion) == FALSE

\* the no-change test: lastSeen === currentVersion
NoChange(lastSeen, currentVersion) == lastSeen = currentVersion

\* faulty variant: a detected change is not recorded
StoreOnChange_skipped(lastSeenStore, pkg, currentVersion) == lastSeenStore

\* the state update of a detected change: lastSeenStore[pkg] = currentVersion
StoreOnChange(lastSeenStore, pkg, currentVersion) ==
  [lastSeenStore EXCEPT ![pkg] = currentVersion]

\* faulty variant: the prior version is passed on without the sentinel
PriorOrSentinel_raw(lastSeen) == lastSeen

\* the fromVersion of a detected change: lastSeen || sentinel
PriorOrSentinel(lastSeen) == IF Falsy(lastSeen) THEN Sentinel ELSE lastSeen

\* faulty variant: the entry is looked up under a key that is never written
LastSeenOf_forgotten(lastSeenStore, pkg) == Undefined

\* the prior observation: lastSeenStore[pkg], keyed by the package name alone
LastSeenOf(lastSeenStore, pkg) == lastSeenStore[pkg]

\* checkPackageVersion from the registry answer on (everything between the
\* first await and the call of buildVersionChange runs without suspension):
\* the store it leaves and either the null it returns or the versions it
\* hands to buildVersionChange
checkPackageVersion(pkg, tag, includePre, skipInitial, debugMode, data, lastSeenStore) ==
  LET currentVersion == CurrentVersion(data, tag)
      lastSeen       == LastSeenOf(lastSeenStore, pkg)
      initialized    == StoreOnFirstRun(lastSeenStore, pkg, currentVersion)
      ReturnNull(st) == [store |-> st, ret |-> "null", from |-> Undefined,
                         to |-> Undefined]
  IN IF TagMissing(currentVersion) THEN ReturnNull(lastSeenStore)
     ELSE IF PrereleaseFiltered(includePre, currentVersion) THEN ReturnNull(lastSeenStore)
     ELSE IF DebugBranch(debugMode, lastSeen)
          THEN [store |-> lastSeenStore, ret |-> "build",
                from |-> generateFakePreviousVersion(currentVersion),
                to |-> currentVersion]
     ELSE IF Falsy(lastSeen) /\ skipInitial THEN ReturnNull(initialized)
     ELSE IF NoChange(lastSeen, currentVersion) THEN ReturnNull(initialized)
     ELSE [store |-> StoreOnChange(initialized, pkg, currentVersion), ret |-> "build",
           from |-> PriorOrSentinel(lastSeen),
           to |-> currentVersion]

\* ------------------------------------------------------------ inputs
\* what the registry answers: null, or metadata with or without dist-tags and
\* with a repository reference in one of its forms
Repositories ==
  { NoRepository,
    [form |-> "string", url |-> "github:a/b"],
    [form |-> "string", url |-> "https://gitlab.com/a/b"],
    [form |-> "string", url |-> "https://github.com/a"],
    [form |-> "object", url |-> "git+https://github.com/a/b.git"] }

RegistryAnswers ==
  { [isNull |-> TRUE, hasDistTags |-> FALSE, distTags |-> NoDistTags,
     repository |-> NoRepository] } \cup
  [ isNull : {FALSE}, hasDistTags : {FALSE}, distTags : {NoDistTags},
    repository : Repositories ] \cup
  [ isNull : {FALSE}, hasDistTags : {TRUE},
    distTags : [Tags -> Versions \cup {Undefined}], repository : Repositories ]

\* what the registry answers to a request for the metadata read at tag: any
\* answer, or, once it has settled on a version for the selected tag, the
\* answers that resolve the tag to that version
RegistryAnswersAt(settledOn, tag) ==
  IF settledOn = Undefined THEN RegistryAnswers
  ELSE { data \in RegistryAnswers : CurrentVersion(data, tag) = settledOn }

\* what a release lookup answers for candidate tag t: an empty body, a record
\* without html_url, or a release with or without a title and notes
ReleaseAnswers(owner, repo, t) ==
  LET page == "https://github.com/" \o owner \o "/" \o repo \o "/releases/tag/" \o t
  IN { [isNull |-> TRUE, html_url |-> Undefined, body |-> Undefined,
        name |-> Undefined, tag_name |-> Undefined],
       [isNull |-> FALSE, html_url |-> Undefined, body |-> Undefined,
        name |-> Undefined, tag_name |-> t],
       [isNull |-> FALSE, html_url |-> page, body |-> Undefined,
        name |-> Undefined, tag_name |-> t],
       [isNull |-> FALSE, html_url |-> page, body |-> "notes",
        name |-> "title", tag_name |-> t] }

\* values of the packages parameter: empty, blank entries only, one package,
\* and the node's default of two packages
RawPackages == {"", " , ", "react", "react, axios"}

\* items.length of an invocation: no input item, or the one item a trigger
\* delivers
ItemCounts == {0, 1}

TagSelections == {"latest", "next", "custom"}
CustomTags == {"", "next"}


\* ------------------------------------------------------------ state
VARIABLES
  store,         \* the node's static data: hasLastSeen, and lastSeen[pkg]
  pc,            \* where execute is: idle, item, loop, fetch, release
  runs,          \* invocations of execute started so far
  nItems,        \* items.length of the running invocation
  item,          \* the item index i of execute, from 1
  params,        \* the node parameters read for the current item
  packages,      \* the parsed package list of the current item
  k,             \* position in packages of the check in progress or next to start
  calls,         \* calls of checkPackageVersion made for the current item
  allChanges,    \* the records collected by the running or last invocation
  chk,           \* the frame of the current or last call of checkPackageVersion
  errors,        \* the error lines the package loop's catch has logged for the item
  storeAtStart,  \* lastSeen as the running invocation found it
  recordedUnder, \* for each entry of lastSeen, the tag of the check that wrote it
  settled,       \* the version the registry has settled on for the selected tag, if any
  helper         \* a direct call of an exported pure helper: fn, args, out

vars == << store, pc, runs, nItems, item, params, packages, k, calls,
           allChanges, chk, errors, storeAtStart, recordedUnder, settled, helper >>

\* the variables of execute and of the registry it talks to
nodeVars == << store, pc, runs, nItems, item, params, packages, k, calls,
               allChanges, chk, errors, storeAtStart, recordedUnder, settled >>

NoParams ==
  [tag |-> Undefined, includePre |-> FALSE, skipInitial |-> FALSE,
   debugMode |-> FALSE, fetchReleaseInfo |-> FALSE]

NoRecord ==
  [pkg |-> Undefined, from |-> Undefined, to |-> Undefined, tag |-> Undefined,
   changeType |-> Undefined, npmUrl |-> Undefined, repositoryUrl |-> Undefined,
   changelogUrl |-> Undefined, releaseNotes |-> Undefined, releaseTitle |-> Undefined]

\* the frame of a call of checkPackageVersion: its arguments, the locals
\* that outlive an await, the requests it has issued and what it returned
NoCall ==
  [ pkg           |-> Undefined,
    status        |-> "none",       \* none, fetching, releases, returned, threw
    storeBefore   |-> EmptyLastSeen,\* lastSeenStore when the call was made
    priorTag      |-> Undefined,    \* the tag under which lastSeenStore[pkg] was written
    emittedBefore |-> 0,            \* allChanges.length when the call was made
    answer        |-> "none",       \* the registry answer: none, null, no-dist-tags, dist-tags
    cur           |-> Undefined,    \* currentVersion
    from          |-> Undefined,    \* fromVersion of buildVersionChange
    to            |-> Undefined,    \* toVersion of buildVersionChange
    repositoryUrl |-> Undefined,
    owner         |-> Undefined,
    repo          |-> Undefined,
    cand          |-> 0,            \* index in tagVariants of the lookup in flight
    lookups       |-> << >>,        \* the tags of the release lookups issued, in order
    lookupErrors  |-> 0,            \* how many of those lookups threw
    githubRef     |-> FALSE,        \* the registry answer names a github.com repository
    release       |-> "none",       \* fetchGitHubRelease: none (not called), found, absent
    reqs          |-> 0,            \* HTTP requests issued by the call
    result        |-> "none",       \* none, null, record
    change        |-> NoRecord ]

\* no helper is being called directly; out collects the results of the
\* successive applications
NoHelperCall == [fn |-> "none", args |-> << "", "" >>, out |-> << >>]

\* the node before its first invocation
InitNode ==
  /\ store = [hasLastSeen |-> FALSE, lastSeen |-> EmptyLastSeen]
  /\ pc = "idle"
  /\ runs = 0
  /\ nItems = 0
  /\ item = 0
  /\ params = NoParams
  /\ packages = << >>
  /\ k = 0
  /\ calls = 0
  /\ allChanges = << >>
  /\ chk = NoCall
  /\ errors = 0
  /\ storeAtStart = EmptyLastSeen
  /\ recordedUnder = EmptyLastSeen
  /\ settled = Undefined

Init ==
  /\ InitNode
  /\ helper = NoHelperCall

\* ------------------------------------------------------------ execute
\* tagSel === 'custom' ? (custom || 'latest') : tagSel
ResolveTag(tagSel, custom) ==
  IF tagSel = "custom" THEN (IF custom = "" THEN "latest" ELSE custom) ELSE tagSel

\* rawPkgs.split(',').map(s => s.trim()).filter(Boolean)
ParsePackages(rawPkgs) ==
  SelectSeq([i \in 1..Len(Split(rawPkgs, ",")) |-> Trim(Split(rawPkgs, ",")[i])],
            LAMBDA e : e # "")

\* faulty variant: debug mode does not reset the state
ResetForDebug_kept(debugMode, lastSeen) == lastSeen

\* store.lastSeen once the item's debugMode has been read
ResetForDebug(debugMode, lastSeen) ==
  IF debugMode THEN EmptyLastSeen ELSE lastSeen

\* execute up to its item loop: the store is fetched and lastSeen created;
\* itemCounts are the numbers of items it may be given, runsAfter the count
\* of invocations once it has started
StartExecuteWith(itemCounts, runsAfter) ==
  /\ pc = "idle"
  /\ \E n \in itemCounts : nItems' = n
  /\ runs' = runsAfter
  /\ store' = [store EXCEPT !.hasLastSeen = TRUE]
  /\ storeAtStart' = store.lastSeen
  /\ allChanges' = << >>
  /\ item' = 1
  /\ pc' = "item"
  /\ UNCHANGED << params, packages, k, calls, chk, errors, recordedUnder >>
  /\ UNCHANGED << helper, settled >>

StartExecute ==
  /\ runs < MaxRuns
  /\ StartExecuteWith(ItemCounts, runs + 1)

\* one turn of the item loop up to the package loop: the parameters are
\* read, debug mode resets lastSeen, the package list is parsed
\* (debugModes, includePres and rawPackages are the values the parameters
\* of those names may have)
BeginItemWith(debugModes, includePres, rawPackages) ==
  /\ pc = "item"
  /\ item <= nItems
  /\ \E tagSel \in TagSelections, custom \in CustomTags,
        includePre \in includePres, skipInitial \in BOOLEAN,
        fetchReleaseInfo \in BOOLEAN, debugMode \in debugModes,
        rawPkgs \in rawPackages :
       /\ params' = [tag |-> ResolveTag(tagSel, custom), includePre |-> includePre,
                     skipInitial |-> skipInitial, debugMode |-> debugMode,
                     fetchReleaseInfo |-> fetchReleaseInfo]
       /\ store' = [store EXCEPT !.lastSeen = ResetForDebug(debugMode, @)]
       /\ recordedUnder' = ResetForDebug(debugMode, recordedUnder)
       /\ packages' = ParsePackages(rawPkgs)
       /\ IF Len(ParsePackages(rawPkgs)) = 0
          THEN /\ item' = item + 1
               /\ pc' = "item"
               /\ k' = 0
          ELSE /\ item' = item
               /\ pc' = "loop"
               /\ k' = 1
  /\ calls' = 0
  /\ chk' = NoCall
  /\ errors' = 0
  /\ UNCHANGED << runs, nItems, allChanges, storeAtStart >>
  /\ UNCHANGED << helper, settled >>

BeginItem == BeginItemWith(BOOLEAN, BOOLEAN, RawPackages)

\* faulty variant: the loop does not await the check it started
CanStartCheck_noAwait(at) == at \in {"loop", "fetch", "release"}

\* the package loop awaits checkPackageVersion: the next call is made only
\* when execute is back in the loop, no check in flight
CanStartCheck(at) == at = "loop"

\* the package loop calls checkPackageVersion, which issues the registry
\* request and suspends
CallCheck ==
  /\ CanStartCheck(pc)
  /\ k <= Len(packages)
  /\ chk' = [NoCall EXCEPT !.pkg = packages[k], !.status = "fetching",
                           !.storeBefore = store.lastSeen,
                           !.priorTag = recordedUnder[packages[k]],
                           !.emittedBefore = Len(allChanges), !.reqs = 1]
  /\ calls' = calls + 1
  /\ pc' = "fetch"
  /\ UNCHANGED << store, runs, nItems, item, params, packages, k, allChanges,
                  errors, storeAtStart, recordedUnder >>
  /\ UNCHANGED << helper, settled >>

\* the item loop is over: execute returns the collected records
FinishExecute ==
  /\ pc = "item"
  /\ item > nItems
  /\ pc' = "idle"
  /\ nItems' = 0
  /\ item' = 0
  /\ params' = NoParams
  /\ packages' = << >>
  /\ k' = 0
  /\ calls' = 0
  /\ chk' = NoCall
  /\ errors' = 0
  /\ storeAtStart' = EmptyLastSeen
  /\ UNCHANGED << store, runs, allChanges, recordedUnder >>
  /\ UNCHANGED << helper, settled >>


\* ------------------------------------------------------------ the check
\* the package loop goes on at position pos: the next package, or, past the
\* last one, the next turn of the item loop
ContinueAt(pos) ==
  /\ k' = pos
  /\ IF pos > Len(packages)
     THEN item' = item + 1 /\ pc' = "item"
     ELSE item' = item /\ pc' = "loop"

\* checkPackageVersion returns to the package loop, which pushes a record
\* and moves on to the next package
Returns(frame, result, change) ==
  /\ chk' = [frame EXCEPT !.status = "returned", !.result = result, !.change = change]
  /\ allChanges' = IF result = "record" THEN Append(allChanges, change) ELSE allChanges
  /\ ContinueAt(k + 1)

\* faulty variant: the failure of one package ends the package loop
AfterThrow_abort(pos, len) == len + 1

\* where the package loop goes on when checkPackageVersion throws: the catch
\* logs and continues with the next package
AfterThrow(pos, len) == pos + 1

\* the registry request fails: checkPackageVersion throws at its first await
RegistryError ==
  /\ pc = "fetch"
  /\ chk' = [chk EXCEPT !.status = "threw"]
  /\ errors' = errors + 1
  /\ ContinueAt(AfterThrow(k, Len(packages)))
  /\ UNCHANGED << store, runs, nItems, params, packages, calls, allChanges,
                  storeAtStart, recordedUnder >>
  /\ UNCHANGED << helper, settled >>

\* the repository reference of the registry answer is a github.com one
GitHubRef(npmData) ==
  ExtractRepositoryUrl(npmData) # Undefined
    /\ Includes(ExtractRepositoryUrl(npmData), "github.com")

\* faulty variant: the release information is fetched whatever the flag
EnrichmentOn_always(fetchReleaseInfo) == TRUE

\* the guard of the enrichment block: if (fetchReleaseInfo)
EnrichmentOn(fetchReleaseInfo) == fetchReleaseInfo

\* buildVersionChange up to its first await: the repository URL, and whether
\* and for which owner and repo fetchGitHubRelease starts its lookups
BuildPlan(npmData, fetchReleaseInfo) ==
  LET repositoryUrl == IF EnrichmentOn(fetchReleaseInfo)
                       THEN ExtractRepositoryUrl(npmData)
                       ELSE Undefined
      github        == repositoryUrl # Undefined /\ Includes(repositoryUrl, "github.com")
      match         == IF github THEN GitHubMatch(repositoryUrl)
                       ELSE [matched |-> FALSE, owner |-> Undefined, repo |-> Undefined]
  IN [ repositoryUrl |-> repositoryUrl,
       github        |-> github,
       lookup        |-> match.matched,
       owner         |-> match.owner,
       repo          |-> match.repo ]

\* faulty variant: without a release the title is the version
RecordWithoutRelease_titled(frame, tag, github) ==
  VersionChange(frame.pkg, frame.from, frame.to, tag, frame.repositoryUrl,
                IF github THEN FallbackChangelogUrl(frame.repositoryUrl, frame.to)
                ELSE Undefined,
                Undefined, frame.to)

\* the record buildVersionChange returns when fetchGitHubRelease was not
\* called (not a GitHub repository, or enrichment off) or returned null
RecordWithoutRelease(frame, tag, github) ==
  VersionChange(frame.pkg, frame.from, frame.to, tag, frame.repositoryUrl,
                IF github THEN FallbackChangelogUrl(frame.repositoryUrl, frame.to)
                ELSE Undefined,
                Undefined, Undefined)

\* the record buildVersionChange returns from the release fetchGitHubRelease found
RecordWithRelease(frame, tag, release) ==
  VersionChange(frame.pkg, frame.from, frame.to, tag, frame.repositoryUrl,
                release.html_url,
                IF Falsy(release.body) THEN "" ELSE release.body,
                IF Falsy(release.name) THEN release.tag_name ELSE release.name)

\* the registry answers: checkPackageVersion runs to its return or to the
\* first release lookup of buildVersionChange
RegistryResponse ==
  /\ pc = "fetch"
  /\ \E data \in RegistryAnswersAt(settled, params.tag) :
       LET r     == checkPackageVersion(chk.pkg, params.tag, params.includePre,
                                        params.skipInitial, params.debugMode,
                                        data, store.lastSeen)
           plan  == BuildPlan(data, params.fetchReleaseInfo)
           seen  == [chk EXCEPT
                       !.answer = IF data.isNull THEN "null"
                                  ELSE IF data.hasDistTags THEN "dist-tags"
                                  ELSE "no-dist-tags",
                       !.cur = CurrentVersion(data, params.tag),
                       !.from = r.from,
                       !.to = r.to]
           built == [seen EXCEPT !.repositoryUrl = plan.repositoryUrl,
                                 !.githubRef = GitHubRef(data)]
       IN /\ store' = [store EXCEPT !.lastSeen = r.store]
          /\ recordedUnder' =
               IF r.store[chk.pkg] # store.lastSeen[chk.pkg]
               THEN [recordedUnder EXCEPT ![chk.pkg] = params.tag]
               ELSE recordedUnder
          /\ IF r.ret = "null"
             THEN Returns(seen, "null", NoRecord)
             ELSE IF plan.lookup
             THEN /\ chk' = [built EXCEPT !.status = "releases", !.owner = plan.owner,
                                          !.repo = plan.repo, !.cand = 1,
                                          !.lookups = <<tagVariants(plan.repo, r.to)[1]>>,
                                          !.reqs = @ + 1]
                  /\ pc' = "release"
                  /\ UNCHANGED << k, item, allChanges >>
             ELSE Returns([built EXCEPT !.release = IF plan.github THEN "absent"
                                                    ELSE "none"],
                          "record",
                          RecordWithoutRelease(built, params.tag, plan.github))
  /\ UNCHANGED << runs, nItems, params, packages, calls, errors, storeAtStart >>
  /\ UNCHANGED << helper, settled >>

\* faulty variant: a lookup that does not resolve ends the cascade
AfterFailedLookup_abort(cand, len) == len + 1

\* the candidate fetchGitHubRelease goes on with when the lookup of candidate
\* cand threw (catch: continue) or gave no html_url: the next one
AfterFailedLookup(cand, len) == cand + 1

\* the lookup of the current candidate did not resolve (threw says how): the
\* next candidate is requested, or, after the last one, fetchGitHubRelease
\* returns null
CandidateFailed(threw) ==
  LET variants == tagVariants(chk.repo, chk.to)
      next     == AfterFailedLookup(chk.cand, Len(variants))
      failed   == [chk EXCEPT !.lookupErrors = IF threw THEN @ + 1 ELSE @]
  IN IF next <= Len(variants)
     THEN /\ chk' = [failed EXCEPT !.cand = next, !.reqs = @ + 1,
                                   !.lookups = Append(@, variants[next])]
          /\ UNCHANGED << pc, k, item, allChanges >>
     ELSE Returns([failed EXCEPT !.release = "absent"], "record",
                  RecordWithoutRelease(failed, params.tag, TRUE))

\* a release lookup fails
ReleaseError ==
  /\ pc = "release"
  /\ CandidateFailed(TRUE)
  /\ UNCHANGED << store, runs, nItems, params, packages, calls, errors,
                  storeAtStart, recordedUnder >>
  /\ UNCHANGED << helper, settled >>

\* a release lookup answers
ReleaseResponse ==
  /\ pc = "release"
  /\ \E release \in ReleaseAnswers(chk.owner, chk.repo,
                                   tagVariants(chk.repo, chk.to)[chk.cand]) :
       IF ~release.isNull /\ ~Falsy(release.html_url)
       THEN Returns([chk EXCEPT !.release = "found"], "record",
                    RecordWithRelease(chk, params.tag, release))
       ELSE CandidateFailed(FALSE)
  /\ UNCHANGED << store, runs, nItems, params, packages, calls, errors,
                  storeAtStart, recordedUnder >>
  /\ UNCHANGED << helper, settled >>

Next ==
  \/ StartExecute
  \/ BeginItem
  \/ CallCheck
  \/ FinishExecute
  \/ RegistryError
  \/ RegistryResponse
  \/ ReleaseError
  \/ ReleaseResponse

Spec == Init /\ [][Next]_vars

\* ------------------------------------------------------------ helpers called directly
\* detectChangeType, normalizeRepositoryUrl and generateFakePreviousVersion
\* are pure functions: here each is applied to arguments of its own, outside
\* execute

\* version strings of one to three numeric components
NumericVersions ==
  { JoinDots([i \in 1..Len(c) |-> NatToString(c[i])]) :
      c \in UNION { [1..n -> 0..MaxComponent] : n \in 1..3 } }

OldVersions == NumericVersions \cup {Undefined, "", Sentinel, "v1.0.0", "9.0.0"}
NewVersions == NumericVersions \cup {"1.1.0-beta.1", "v1.1.0", "10.0.0"}

RepoPrefixes == {"git+", "git://", "github:"}

\* up to n prefixes in a row
RECURSIVE PrefixRuns(_)
PrefixRuns(n) ==
  IF n = 0 THEN {""}
  ELSE {""} \cup { pre \o r : pre \in RepoPrefixes, r \in PrefixRuns(n - 1) }

\* up to n .git suffixes in a row
RECURSIVE SuffixRuns(_)
SuffixRuns(n) ==
  IF n = 0 THEN {""} ELSE {""} \cup { ".git" \o r : r \in SuffixRuns(n - 1) }

RepoBodies == {"https://github.com/a/b", "github.com/a/b", "a/b"}

RepoStrings ==
  { pre \o body \o suf :
      pre \in PrefixRuns(MaxRepeat), body \in RepoBodies, suf \in SuffixRuns(MaxRepeat) }

\* current versions: numeric ones, prereleases, a non-numeric, a two-digit, a
\* zero-padded, a signed and an empty third component, and a fourth component
CurrentVersions ==
  NumericVersions \cup
  { "1.0.1-b", "1.2.3-beta.1", "1.2.x", "1.2.10", "1.2.03", "1.2.-5", "1.2.",
    "v1.2.3", "1.2.3.4", "" }

HelperCalls ==
  { [fn |-> "detectChangeType", args |-> << o, n >>, out |-> << >>] :
      o \in OldVersions, n \in NewVersions }
  \cup
  { [fn |-> "generateFakePreviousVersion", args |-> << v, "" >>, out |-> << >>] :
      v \in CurrentVersions }
  \cup
  { [fn |-> "normalizeRepositoryUrl", args |-> << x, "" >>, out |-> << >>] :
      x \in RepoStrings }

InitHelpers ==
  /\ InitNode
  /\ helper \in HelperCalls

CallDetectChangeType ==
  /\ helper.fn = "detectChangeType"
  /\ helper.out = << >>
  /\ helper' = [helper EXCEPT
                  !.out = << detectChangeType(helper.args[1], helper.args[2]) >>]
  /\ UNCHANGED nodeVars

CallNormalizeRepositoryUrl ==
  /\ helper.fn = "normalizeRepositoryUrl"
  /\ helper.out = << >>
  /\ helper' = [helper EXCEPT !.out = << normalizeRepositoryUrl(helper.args[1]) >>]
  /\ UNCHANGED nodeVars

CallGenerateFakePreviousVersion ==
  /\ helper.fn = "generateFakePreviousVersion"
  /\ helper.out = << >>
  /\ helper' = [helper EXCEPT !.out = << generateFakePreviousVersion(helper.args[1]) >>]
  /\ UNCHANGED nodeVars

\* the result of normalizeRepositoryUrl is normalized once more
NormalizeAgain ==
  /\ helper.fn = "normalizeRepositoryUrl"
  /\ Len(helper.out) = 1
  /\ helper' = [helper EXCEPT !.out = Append(@, normalizeRepositoryUrl(helper.out[1]))]
  /\ UNCHANGED nodeVars

NextHelpers ==
  \/ CallDetectChangeType
  \/ CallNormalizeRepositoryUrl
  \/ CallGenerateFakePreviousVersion
  \/ NormalizeAgain

SpecHelpers == InitHelpers /\ [][NextHelpers]_vars


\* ------------------------------------------------------------ a settled registry
\* The node is invoked again and again, with debug mode off, on its default
\* list of two packages, while the registry resolves the selected tag to one
\* version: settled.  The store starts with any entries earlier invocations
\* may have left.

\* lastSeen as earlier invocations may have left it
LastSeenStores == [Packages -> Versions \cup {Undefined}]

\* the values of includePrerelease under which version passes the filter
PassingFilter(version) ==
  { includePre \in BOOLEAN : ~PrereleaseFiltered(includePre, version) }

InitStable ==
  /\ settled \in Versions
  /\ \E lastSeen \in LastSeenStores :
       /\ store = [hasLastSeen |-> lastSeen # EmptyLastSeen, lastSeen |-> lastSeen]
       /\ recordedUnder =
            [pkg \in Packages |-> IF Falsy(lastSeen[pkg]) THEN Undefined ELSE "latest"]
  /\ pc = "idle"
  /\ runs = 0
  /\ nItems = 0
  /\ item = 0
  /\ params = NoParams
  /\ packages = << >>
  /\ k = 0
  /\ calls = 0
  /\ allChanges = << >>
  /\ chk = NoCall
  /\ errors = 0
  /\ storeAtStart = EmptyLastSeen
  /\ helper = NoHelperCall

\* one more invocation, on the one item a trigger delivers; invocations
\* beyond MaxRuns are not told apart
StartExecuteStable == StartExecuteWith({1}, IF runs < MaxRuns THEN runs + 1 ELSE runs)

BeginItemStable == BeginItemWith({FALSE}, PassingFilter(settled), {"react, axios"})

NextStable ==
  \/ StartExecuteStable
  \/ BeginItemStable
  \/ CallCheck
  \/ FinishExecute
  \/ RegistryError
  \/ RegistryResponse
  \/ ReleaseError
  \/ ReleaseResponse

\* the host keeps invoking the node and execute runs on; every request is
\* answered or fails; the registry request of each package succeeds again
\* and again
FairStable ==
  /\ WF_vars(StartExecuteStable)
  /\ WF_vars(BeginItemStable)
  /\ WF_vars(CallCheck)
  /\ WF_vars(FinishExecute)
  /\ WF_vars(RegistryError \/ RegistryResponse)
  /\ WF_vars(ReleaseError \/ ReleaseResponse)
  /\ \A pkg \in Packages : SF_vars(chk.pkg = pkg /\ RegistryResponse)

SpecStable == InitStable /\ [][NextStable]_vars /\ FairStable


\* ------------------------------------------------------------ properties
\* the call of checkPackageVersion in chk has returned (with null or a record)
Returned == chk.status = "returned"

\* the store entry of the checked package when the call was made
Prior == chk.storeBefore[chk.pkg]

\* the requested tag resolved to a version that passes the prerelease filter
Resolved ==
  /\ ~Falsy(chk.cur)
  /\ params.includePre \/ ~Includes(chk.cur, "-")

\* the call returned a record, and the package loop pushed exactly that one
EmittedOne ==
  /\ chk.result = "record"
  /\ Len(allChanges) = chk.emittedBefore + 1
  /\ allChanges[Len(allChanges)] = chk.change

\* C1: a check that finds a prior value P in the store and a resolved,
\* unfiltered version V # P returns a record with from = P and to = V, and
\* leaves store[package] = V.
Thm_C1 ==
  (Returned /\ Resolved /\ ~Falsy(Prior) /\ Prior # chk.cur)
    => /\ chk.result = "record"
       /\ chk.change.from = Prior
       /\ chk.change.to = chk.cur
       /\ store.lastSeen[chk.pkg] = chk.cur

Wit_C1 ==
  /\ Returned /\ Resolved /\ ~Falsy(Prior) /\ Prior # chk.cur
  /\ chk.result = "record"
  /\ chk.change.from = "1.0.0" /\ chk.change.to = "1.0.1-b"

\* C2: a check whose prior store value equals the version the tag resolves to
\* returns null and leaves the whole store as it was; and whenever a check
\* outside debug mode emits a record the store holds the emitted version
\* afterwards, so that a second check against the same version is such a
\* no-change check and emits nothing.
Thm_C2 ==
  /\ (Returned /\ ~Falsy(chk.cur) /\ Prior = chk.cur)
       => (chk.result = "null" /\ store.lastSeen = chk.storeBefore
           /\ Len(allChanges) = chk.emittedBefore)
  /\ (Returned /\ ~params.debugMode /\ chk.result = "record")
       => store.lastSeen[chk.pkg] = chk.cur

Wit_C2 ==
  /\ Returned /\ ~Falsy(chk.cur) /\ Prior = chk.cur
  /\ Resolved /\ ~params.debugMode
  /\ chk.result = "null"

\* C3: first run with skipInitial: no entry for the package, debug mode off,
\* a resolved and unfiltered version V: the check returns null and the store
\* is the store as it was with store[package] = V.
Thm_C3 ==
  (Returned /\ Resolved /\ Falsy(Prior) /\ ~params.debugMode /\ params.skipInitial)
    => /\ chk.result = "null"
       /\ store.lastSeen = [chk.storeBefore EXCEPT ![chk.pkg] = chk.cur]

Wit_C3 ==
  /\ Returned /\ Resolved /\ Falsy(Prior) /\ ~params.debugMode /\ params.skipInitial
  /\ chk.result = "null"
  /\ store.lastSeen[chk.pkg] = "1.0.0"

\* C4: first run without skipInitial: no entry for the package, debug mode
\* off, a resolved and unfiltered version V (a prerelease included): the check
\* returns exactly one record, from the sentinel to V with change type
\* unknown, and leaves store[package] = V.
Thm_C4 ==
  (Returned /\ Resolved /\ Falsy(Prior) /\ ~params.debugMode /\ ~params.skipInitial)
    => /\ EmittedOne
       /\ chk.change.from = Sentinel
       /\ chk.change.to = chk.cur
       /\ chk.change.changeType = "unknown"
       /\ store.lastSeen[chk.pkg] = chk.cur

Wit_C4 ==
  /\ Returned /\ Resolved /\ Falsy(Prior) /\ ~params.debugMode /\ ~params.skipInitial
  /\ Includes(chk.cur, "-")
  /\ EmittedOne
  /\ chk.change.changeType = "unknown"


\* the call of checkPackageVersion in chk has ended, by a return or a throw
Ended == chk.status \in {"returned", "threw"}

\* C5: a check whose registry fetch fails has issued that one request, has
\* not written to the store and adds no record; the package loop then goes on
\* with the next package from that unchanged state, and when it ends every
\* package of the list has been checked.
Thm_C5 ==
  /\ chk.status = "threw"
       => /\ store.lastSeen = chk.storeBefore
          /\ Len(allChanges) = chk.emittedBefore
          /\ chk.reqs = 1
  /\ (Ended /\ pc = "loop") => (k = calls + 1 /\ k <= Len(packages))
  /\ (Ended /\ pc = "item") => calls = Len(packages)

Wit_C5 ==
  /\ pc = "item" /\ Len(packages) = 2 /\ calls = 2 /\ errors = 1
  /\ chk.pkg = "axios" /\ EmittedOne /\ Len(allChanges) = 1
  /\ store.lastSeen["axios"] = chk.cur
  /\ store.lastSeen["react"] = Undefined

\* C6: in debug mode, with no entry for the package and a resolved,
\* unfiltered version V, the check returns a record from the synthetic prior
\* version to V and leaves the whole store as it was.
Thm_C6 ==
  (Returned /\ Resolved /\ params.debugMode /\ Falsy(Prior))
    => /\ chk.result = "record"
       /\ chk.change.from = generateFakePreviousVersion(chk.cur)
       /\ chk.change.to = chk.cur
       /\ store.lastSeen = chk.storeBefore

Wit_C6 ==
  /\ Returned /\ Resolved /\ params.debugMode /\ Falsy(Prior)
  /\ chk.result = "record"
  /\ chk.cur = "1.0.1-b" /\ chk.change.from = "1.0.0"

\* execute has gone through all its items and is about to return
AllItemsDone == pc = "item" /\ item > nItems

\* C7 as stated: when an invocation whose item has debugMode enabled is over,
\* every entry the store held when the invocation began is still there with
\* the same value.
CE_C7 ==
  (AllItemsDone /\ params.debugMode)
    => \A p \in Packages :
         ~Falsy(storeAtStart[p]) => store.lastSeen[p] = storeAtStart[p]

\* C7 as amended: a check in debug mode never writes to the store, but
\* execute clears it when it begins an item with debugMode enabled: from then
\* on, and when that item is over, the store holds no entry at all.
Thm_C7 ==
  /\ (Ended /\ params.debugMode) => store.lastSeen = chk.storeBefore
  /\ params.debugMode => store.lastSeen = EmptyLastSeen

Wit_C7 ==
  /\ AllItemsDone /\ params.debugMode
  /\ storeAtStart # EmptyLastSeen
  /\ Returned /\ chk.result = "record"
  /\ store.lastSeen = EmptyLastSeen

\* C8: in debug mode every check whose tag resolves to an unfiltered version
\* emits exactly one record, whatever the store held when the invocation
\* began and whatever invocations came before.
Thm_C8 ==
  (Returned /\ Resolved /\ params.debugMode) => EmittedOne

Wit_C8 ==
  /\ Returned /\ Resolved /\ params.debugMode
  /\ runs = 2
  /\ storeAtStart[chk.pkg] = chk.cur
  /\ EmittedOne

\* C9: a resolved version with a hyphen is filtered when includePre is off:
\* the check returns null, leaves the whole store as it was and has issued
\* the registry request only, whatever the prior entry and the debug flag.
Thm_C9 ==
  (Returned /\ ~Falsy(chk.cur) /\ Includes(chk.cur, "-") /\ ~params.includePre)
    => /\ chk.result = "null"
       /\ store.lastSeen = chk.storeBefore
       /\ chk.reqs = 1
       /\ Len(allChanges) = chk.emittedBefore

Wit_C9 ==
  /\ Returned /\ ~Falsy(chk.cur) /\ Includes(chk.cur, "-") /\ ~params.includePre
  /\ params.fetchReleaseInfo
  /\ ~Falsy(Prior) /\ Prior # chk.cur
  /\ chk.result = "null"

\* C10: when the registry answer has no dist-tags mapping, or the mapping has
\* no entry for the requested tag, the check returns null and leaves the
\* whole store as it was, whatever skipInitial, debugMode and the prior entry.
Thm_C10 ==
  (Returned /\ chk.answer \in {"null", "no-dist-tags", "dist-tags"} /\ Falsy(chk.cur))
    => /\ chk.result = "null"
       /\ store.lastSeen = chk.storeBefore

Wit_C10 ==
  /\ Returned /\ chk.answer = "dist-tags" /\ Falsy(chk.cur)
  /\ ~Falsy(Prior) /\ ~params.skipInitial
  /\ chk.result = "null"

\* ------------------------------------------------------------ enrichment
\* the four candidate tags for the version of the current call, spelled out
ExpectedOrder ==
  << "v" \o chk.to, chk.to, chk.repo \o "@" \o chk.to, chk.repo \o "-" \o chk.to >>

\* the release page GitHub names in html_url when it knows tag t
ReleasePage(t) ==
  "https://github.com/" \o chk.owner \o "/" \o chk.repo \o "/releases/tag/" \o t

\* the lookups issued so far are the first candidates, in order, each once
InOrder ==
  /\ Len(chk.lookups) \in 1..4
  /\ chk.lookups = SubSeq(ExpectedOrder, 1, Len(chk.lookups))
  /\ chk.reqs = 1 + Len(chk.lookups)

\* C11: while fetchGitHubRelease is looking up, and when it has returned a
\* release, the lookups issued are v<version>, <version>, <repo>@<version>,
\* <repo>-<version> in that order up to the one in flight or accepted; the
\* accepted release is the answer to the last lookup issued; and a release
\* accepted for v<version> means one release lookup in all.
Thm_C11 ==
  /\ chk.status = "releases" => (InOrder /\ chk.cand = Len(chk.lookups))
  /\ (Returned /\ chk.release = "found")
       => /\ InOrder
          /\ chk.change.changelogUrl = ReleasePage(chk.lookups[Len(chk.lookups)])
  /\ (Returned /\ chk.release = "found"
         /\ chk.change.changelogUrl = ReleasePage("v" \o chk.to))
       => (Len(chk.lookups) = 1 /\ chk.reqs = 2)

Wit_C11 ==
  /\ Returned /\ chk.release = "found"
  /\ chk.lookups = << "v1.0.0", "1.0.0", "b@1.0.0" >>
  /\ chk.change.changelogUrl = "https://github.com/a/b/releases/tag/b@1.0.0"

\* C12: a call that has issued release lookups never ends by a throw: it
\* returns a record, which the package loop pushes, with a release found or
\* absent; absent, for a URL the GitHub pattern matches, only when all four
\* candidates have been looked up, each once; and a lookup that threw is
\* followed by the lookup of the next candidate.
Thm_C12 ==
  /\ chk.status = "threw" => chk.lookups = << >>
  /\ (Ended /\ chk.lookups # << >>)
       => (EmittedOne /\ chk.release \in {"found", "absent"})
  /\ (Returned /\ chk.release = "absent" /\ chk.owner # Undefined)
       => chk.lookups = ExpectedOrder
  /\ chk.status = "releases" => chk.lookupErrors < Len(chk.lookups)

Wit_C12 ==
  /\ Returned /\ chk.release = "absent"
  /\ Len(chk.lookups) = 4 /\ chk.lookupErrors = 2
  /\ EmittedOne

\* C13: with fetchReleaseInfo off a check that returns a record has issued
\* the registry request only, and repositoryUrl, changelogUrl, releaseTitle
\* and releaseNotes of the record are absent, also when the registry answer
\* names a GitHub repository.
Thm_C13 ==
  (Returned /\ chk.result = "record" /\ ~params.fetchReleaseInfo)
    => /\ chk.reqs = 1
       /\ chk.lookups = << >>
       /\ chk.change.repositoryUrl = Undefined
       /\ chk.change.changelogUrl = Undefined
       /\ chk.change.releaseTitle = Undefined
       /\ chk.change.releaseNotes = Undefined

Wit_C13 ==
  /\ Returned /\ chk.result = "record" /\ ~params.fetchReleaseInfo
  /\ chk.githubRef
  /\ ~Falsy(Prior) /\ Prior # chk.cur
  /\ chk.reqs = 1

CE_C15 ==
  (Returned /\ chk.result = "record"
     /\ ~(params.fetchReleaseInfo /\ chk.release = "found"))
    => /\ chk.change.npmUrl = Undefined
       /\ chk.change.repositoryUrl = Undefined
       /\ chk.change.changelogUrl = Undefined
       /\ chk.change.releaseTitle = Undefined
       /\ chk.change.releaseNotes = Undefined

\* C15 as amended: every record carries npmUrl, the registry page of the
\* package version; with fetchReleaseInfo off the four other fields are
\* absent; releaseTitle and releaseNotes are set exactly when a release was
\* found; with fetchReleaseInfo on, repositoryUrl is set when the registry
\* answer names a repository and changelogUrl when it names a GitHub one,
\* release found or not.
Thm_C15 ==
  /\ \A i \in 1..Len(allChanges) :
       allChanges[i].npmUrl = "https://www.npmjs.com/package/" \o allChanges[i].pkg
                                \o "/v/" \o allChanges[i].to
  /\ (Returned /\ chk.result = "record")
       => /\ ~params.fetchReleaseInfo
               => /\ chk.change.repositoryUrl = Undefined
                  /\ chk.change.changelogUrl = Undefined
                  /\ chk.release = "none"
          /\ (chk.change.releaseTitle # Undefined) <=> (chk.release = "found")
          /\ (chk.change.releaseNotes # Undefined) <=> (chk.release = "found")
          /\ (params.fetchReleaseInfo /\ chk.githubRef)
               => /\ chk.change.repositoryUrl # Undefined
                  /\ chk.change.changelogUrl # Undefined
          /\ chk.change.changelogUrl # Undefined
               => (params.fetchReleaseInfo /\ chk.githubRef)

Wit_C15 ==
  /\ Returned /\ chk.result = "record"
  /\ params.fetchReleaseInfo /\ chk.release = "absent"
  /\ chk.change.npmUrl = "https://www.npmjs.com/package/react/v/1.0.0"
  /\ chk.change.repositoryUrl = "https://github.com/a/b"
  /\ chk.change.changelogUrl # Undefined
  /\ chk.change.releaseTitle = Undefined

\* the change type of each pair of versions a check can hand to
\* buildVersionChange, as a table of the two versions alone
ChangeKindTable(fromVersion, toVersion) ==
  IF fromVersion = Sentinel THEN "unknown"
  ELSE IF toVersion = "1.0.1-b" THEN "prerelease"
  ELSE "unknown"

\* C16: the changeType of a record is a function of its from and to alone:
\* records of one invocation with the same from and to carry the same
\* changeType, and in every invocation, whatever fetchReleaseInfo, the
\* repository of the registry answer, the outcome of the release lookups and
\* the store, it is the entry of one table indexed by from and to.
Thm_C16 ==
  /\ \A i, j \in 1..Len(allChanges) :
       (allChanges[i].from = allChanges[j].from /\ allChanges[i].to = allChanges[j].to)
         => allChanges[i].changeType = allChanges[j].changeType
  /\ (Returned /\ chk.result = "record")
       => chk.change.changeType = ChangeKindTable(chk.change.from, chk.change.to)

Wit_C16 ==
  /\ Len(allChanges) = 2
  /\ allChanges[1].from = "1.0.0" /\ allChanges[2].from = "1.0.0"
  /\ allChanges[1].to = "1.0.1-b" /\ allChanges[2].to = "1.0.1-b"
  /\ allChanges[1].releaseTitle = "title"
  /\ allChanges[2].releaseTitle = Undefined
  /\ allChanges[1].changeType = "prerelease"
  /\ allChanges[2].changeType = "prerelease"

\* ------------------------------------------------------------ the classifier
\* detectChangeType has been applied to helper.args
Classified == helper.fn = "detectChangeType" /\ helper.out # << >>

\* major, minor and patch of a version as the claim reads them: digits and
\* dots kept, the first three components, a missing or empty one counted as 0
RefParts(version) ==
  LET parts == SplitDots(KeepDigitsAndDots(version))
  IN [i \in 1..3 |-> IF i <= Len(parts) THEN DigitsValue(parts[i]) ELSE 0]

\* the reference classifier of C17
RefClassify(fromVersion, toVersion) ==
  IF fromVersion \in {Undefined, "", Sentinel} THEN "unknown"
  ELSE IF Includes(toVersion, "-") THEN "prerelease"
  ELSE IF RefParts(toVersion)[1] > RefParts(fromVersion)[1] THEN "major"
  ELSE IF RefParts(toVersion)[2] > RefParts(fromVersion)[2] THEN "minor"
  ELSE IF RefParts(toVersion)[3] > RefParts(fromVersion)[3] THEN "patch"
  ELSE "unknown"

\* C17: for every pair of version strings detectChangeType returns what the
\* reference classifier returns, a missing component counting as 0.
CE_C17 ==
  Classified => helper.out[1] = RefClassify(helper.args[1], helper.args[2])

\* a version of exactly three numeric components
ThreeComponents(version) ==
  /\ version # Undefined
  /\ KeepDigitsAndDots(version) = version
  /\ Len(SplitDots(version)) = 3
  /\ \A i \in 1..3 : SplitDots(version)[i] # ""

\* a is equal to or lower than b in (major, minor, patch) order
NotAbove(a, b) ==
  \/ a[1] < b[1]
  \/ a[1] = b[1] /\ a[2] < b[2]
  \/ a[1] = b[1] /\ a[2] = b[2] /\ a[3] <= b[3]

\* C18: for three-component versions without a hyphen, a toVersion equal to
\* or lower than fromVersion is classified unknown.
CE_C18 ==
  (Classified /\ ThreeComponents(helper.args[1]) /\ ThreeComponents(helper.args[2])
     /\ NotAbove(RefParts(helper.args[2]), RefParts(helper.args[1])))
    => helper.out[1] = "unknown"

\* ------------------------------------------------------------ normalization
\* normalizeRepositoryUrl has been applied to helper.args[1] and to its result
NormalizedTwice == helper.fn = "normalizeRepositoryUrl" /\ Len(helper.out) = 2

\* C20 as stated: for every string built from the prefixes and the suffix,
\* repeated or not, normalizing the result again gives the same result.
CE_C20 ==
  NormalizedTwice => helper.out[2] = helper.out[1]

\* C20 as amended: normalizing the result again gives the same result exactly
\* for the strings that do not start with git+git+ and do not end with
\* .git.git: one application removes one leading git+ and one trailing .git.
Thm_C20 ==
  NormalizedTwice
    => ( helper.out[2] = helper.out[1]
           <=> ( ~StartsWith(helper.args[1], "git+git+")
                 /\ ~EndsWith(helper.args[1], ".git.git") ) )

Wit_C20 ==
  /\ NormalizedTwice
  /\ helper.args[1] = "git+git://github.com/a/b.git"
  /\ helper.out = << "https://github.com/a/b", "https://github.com/a/b" >>

\* ------------------------------------------------------------ store keys
\* C19 as stated: a check of a package whose entry, if any, was recorded
\* under another tag than the one requested finds no prior observation: with
\* skipInitial it returns null, without it a record from the sentinel.
CE_C19 ==
  (Returned /\ Resolved /\ ~params.debugMode /\ chk.priorTag # params.tag)
    => IF params.skipInitial
       THEN chk.result = "null"
       ELSE chk.result = "record" /\ chk.change.from = Sentinel

\* C19 as amended: the store is keyed by the package alone. A check finds a
\* prior observation exactly when some earlier check recorded the package,
\* under whatever tag; a version recorded under another tag is the prior of
\* the check: a different resolved version is reported as a change from it and
\* recorded, the same version is no change; only a package without any entry
\* follows the first-observation branch.
Thm_C19 ==
  /\ chk.status # "none" => (Falsy(Prior) <=> chk.priorTag = Undefined)
  /\ (Returned /\ Resolved /\ ~params.debugMode /\ ~Falsy(Prior)
        /\ chk.priorTag # params.tag)
       => IF chk.cur = Prior
          THEN chk.result = "null" /\ store.lastSeen = chk.storeBefore
          ELSE /\ chk.result = "record"
               /\ chk.change.from = Prior
               /\ chk.change.to = chk.cur
               /\ store.lastSeen[chk.pkg] = chk.cur
               /\ recordedUnder[chk.pkg] = params.tag
  /\ (Returned /\ Resolved /\ ~params.debugMode /\ Falsy(Prior))
       => IF params.skipInitial
          THEN chk.result = "null"
          ELSE chk.result = "record" /\ chk.change.from = Sentinel

Wit_C19 ==
  /\ Returned /\ Resolved /\ ~params.debugMode
  /\ chk.priorTag = "latest" /\ params.tag = "next"
  /\ Prior = "1.0.0" /\ chk.cur = "1.0.1-b"
  /\ chk.result = "record" /\ chk.change.from = "1.0.0"

\* ------------------------------------------------------------ ordering
\* the store as a check outside debug mode leaves it once it has observed the
\* version chk.cur: the store it found with the checked package set to it
StoreWithCurrent == [chk.storeBefore EXCEPT ![chk.pkg] = chk.cur]

\* C21: outside debug mode, as soon as a check has a release lookup in flight
\* the store already holds the current version for the package, it stays so
\* over every lookup, and when the check returns its record the store is that
\* same store whether no lookup was made, a release was found, or none was.
Thm_C21 ==
  /\ (chk.status = "releases" /\ ~params.debugMode)
       => store.lastSeen = StoreWithCurrent
  /\ (Returned /\ chk.result = "record" /\ ~params.debugMode)
       => (store.lastSeen = StoreWithCurrent
           /\ chk.release \in {"none", "found", "absent"})

Wit_C21 ==
  /\ Returned /\ chk.result = "record" /\ ~params.debugMode
  /\ chk.release = "absent" /\ chk.lookupErrors = 4
  /\ ~Falsy(Prior) /\ Prior # chk.cur
  /\ store.lastSeen[chk.pkg] = chk.cur

\* ------------------------------------------------------------ interleaving
\* C22: while the registry fetch of a check is in flight the store is the one
\* the check was called with, so what the check reads when the fetch
\* completes is not stale, and its record starts from that value; at every
\* suspension point exactly one check is in flight, the one for the package
\* the loop stands at, all earlier ones having ended; the loop starts a check
\* only when none is in flight; and a check that has ended has written no
\* other key than its own package.
Thm_C22 ==
  /\ chk.status = "fetching"
       => (pc = "fetch" /\ chk.reqs = 1 /\ store.lastSeen = chk.storeBefore)
  /\ chk.status = "releases" => pc = "release"
  /\ pc \in {"fetch", "release"}
       => /\ calls = k
          /\ chk.pkg = packages[k]
          /\ chk.status \in {"fetching", "releases"}
  /\ pc = "loop"
       => (calls = k - 1 /\ chk.status \in {"none", "returned", "threw"})
  /\ Ended
       => \A p \in Packages \ {chk.pkg} : store.lastSeen[p] = chk.storeBefore[p]
  /\ (Returned /\ chk.result = "record" /\ ~params.debugMode)
       => chk.change.from = (IF Falsy(Prior) THEN Sentinel ELSE Prior)

Wit_C22 ==
  /\ pc = "release" /\ chk.status = "releases"
  /\ k = 2 /\ calls = 2 /\ chk.pkg = "axios"
  /\ errors = 0
  /\ ~Falsy(store.lastSeen["react"])
  /\ store.lastSeen["react"] # storeAtStart["react"]

\* ------------------------------------------------------------ synthetic prior
\* generateFakePreviousVersion has been applied to helper.args[1]
FakeMade == helper.fn = "generateFakePreviousVersion" /\ helper.out # << >>

\* a decimal numeral without sign or padding
IsNumeral(str) == str # "" /\ LeadingDigits(str) = str /\ NatToString(DigitsValue(str)) = str

\* C23: for a version of at least three dot-separated components the result
\* has the same components except the third, which is the numeral of the
\* third component's number less one, and 0 when that would be negative (the
\* number of a component being its leading integer, 0 when it has none); for
\* a version of fewer components the result is 0.0.0.
Thm_C23 ==
  FakeMade
    => LET given == SplitDots(helper.args[1])
           made  == SplitDots(helper.out[1])
       IN IF Len(given) >= 3
          THEN /\ Len(made) = Len(given)
               /\ \A i \in 1..Len(given) : i # 3 => made[i] = given[i]
               /\ IsNumeral(made[3])
               /\ DigitsValue(made[3]) = Max(0, ParseIntOrZero(given[3]) - 1)
          ELSE helper.out[1] = "0.0.0"

Wit_C23 ==
  /\ FakeMade
  /\ helper.args[1] = "1.2.10"
  /\ helper.out[1] = "1.2.9"

\* C24: with debug mode off, once the registry keeps resolving the selected
\* tag to one version that passes the prerelease filter and its requests
\* succeed again and again, the store entry of every watched package becomes
\* that version after finitely many invocations, and stays so; and every
\* check of a package whose entry is that version leaves the store alone
\* and adds no record, and returns null when it returns.
Thm_C24 ==
  /\ \A pkg \in Packages : <>[](store.lastSeen[pkg] = settled)
  /\ []((Ended /\ Prior = settled)
          => /\ Returned => chk.result = "null"
             /\ store.lastSeen = chk.storeBefore
             /\ Len(allChanges) = chk.emittedBefore)

\* a later invocation finds every entry at the settled version, one of them
\* written since the registry settled, and its check returns null
Wit_C24 ==
  /\ settled # Undefined
  /\ runs >= 2
  /\ Returned
  /\ Prior = settled
  /\ chk.result = "null"
  /\ \A pkg \in Packages : store.lastSeen[pkg] = settled
  /\ recordedUnder[chk.pkg] = "next"

\* C25: in every record a check returns, from and to differ, the records of
\* the debug branch included.
CE_C25 ==
  (Returned /\ chk.result = "record") => chk.change.from # chk.change.to

====
